---- MODULE Spec2Model ----
(***************************************************************************)
(* The polling loop of homework.py: fetch the review statuses, validate    *)
(* the response, notify the chat when the homework list changed, report    *)
(* errors, sleep.                                                          *)
(*                                                                         *)
(* Python values are modelled as follows.                                  *)
(*   - None / a missing dict key is the empty tuple NoVal, a present value *)
(*     x is the one-element tuple Some(x).                                 *)
(*   - A homework (dict) is a record of its two keys, each NoVal or Some.  *)
(*   - An exception is a record [type, msg]; once caught in main it also   *)
(*     carries the identity of the exception object (id).                  *)
(*   - The Russian message texts of the source are given in English, the   *)
(*     module being ASCII.                                                 *)
(*   - KeyNotFound, UnknownStatus and MissingVariable come from the module *)
(*     exception, which is not among the sources; they are taken to derive *)
(*     from Exception, so that "except Exception" catches them.            *)
(***************************************************************************)
EXTENDS Integers, Sequences, FiniteSets, TLC

VARIABLES
    pc,                 \* position of main: start, poll, handler, sleep,
                        \* handler_sleep, fatal, crashed, exited
    env,                \* the three environment variables (lines 25-27)
    current_timestamp,  \* main's current_timestamp (NoVal before line 153)
    last_homework,      \* main's last_homework
    last_error,         \* main's last_error
    error,              \* the exception bound by "except Exception as error"
    uncaught,           \* the exception that left main, if any
    cur,                \* what the cycle in progress has done so far
    prev                \* what the previous cycle did

vars == <<pc, env, current_timestamp, last_homework, last_error, error,
          uncaught, cur, prev>>

----------------------------------------------------------------------------
(* Bounds of the model *)

\* longest list of homeworks a response carries
MaxLen == 2

----------------------------------------------------------------------------
(* Python values *)

NoVal == <<>>
Some(x) == <<x>>

Ok(v) == [raised |-> FALSE, value |-> Some(v), exc |-> NoVal]
Raise(type, msg) ==
    [raised |-> TRUE, value |-> NoVal, exc |-> Some([type |-> type, msg |-> msg])]

\* repr() of a key name, as str(KeyError(key)) gives it
ReprKey(key) == "'" \o key \o "'"
\* repr() of a text that holds a single quote: Python picks double quotes
ReprText(text) == "\"" \o text \o "\""

\* str(exception): KeyError shows the repr of its argument
PyStr(exc) ==
    IF exc.type = "KeyError" THEN ReprText(exc.msg) ELSE exc.msg

----------------------------------------------------------------------------
(* Program constants *)

RETRY_TIME == 600

HTTP_OK == 200

HOMEWORK_STATUSES ==
    [approved  |-> "Work checked: the reviewer liked everything. Hooray!",
     reviewing |-> "Work taken for review by the reviewer.",
     rejected  |-> "Work checked: the reviewer has remarks."]

EnvNames == {"PRACTICUM_TOKEN", "TELEGRAM_TOKEN", "TELEGRAM_CHAT_ID"}

----------------------------------------------------------------------------
(* Inputs: what the environment, the endpoint, the clock and Telegram give *)

\* os.getenv: unset, empty or set
EnvValues == {NoVal, Some(""), Some("secret")}

\* int(time.time())
Clock == {1200, 1800}

Homework(name, status) == [homework_name |-> name, status |-> status]

\* the newest homework of a response
Items ==
    { Homework(Some("hw1"), Some("reviewing")),
      Homework(Some("hw1"), Some("approved")),
      Homework(Some("hw2"), Some("rejected")),
      Homework(Some("hw1"), Some("in_orbit")),
      Homework(Some("hw1"), NoVal),
      Homework(NoVal, Some("approved")) }

\* the older homeworks of a response: main never parses them
OlderItems ==
    { Homework(Some("hw0"), Some("approved")),
      Homework(Some("hw0"), Some("rejected")) }

RECURSIVE SeqsUpTo(_, _)
SeqsUpTo(S, n) ==
    IF n <= 0 THEN {<<>>}
    ELSE LET shorter == SeqsUpTo(S, n - 1)
         IN  shorter \cup {Append(s, x) : s \in shorter, x \in S}

HomeworkLists ==
    {<<>>} \cup {<<h>> \o t : h \in Items, t \in SeqsUpTo(OlderItems, MaxLen - 1)}

\* current_date of a response: absent, or a timestamp
Dates == {NoVal, Some(600), Some(1800)}

\* a JSON value under the key 'homeworks'
JList(items) == [tag |-> "list", items |-> items]
JString == [tag |-> "str", items |-> <<>>]

\* a decoded body: a dict with its two keys, or a bare list
JDict(homeworks, date) ==
    [tag |-> "dict", homeworks |-> homeworks, current_date |-> date]
JBareList == [tag |-> "list", homeworks |-> NoVal, current_date |-> NoVal]

Bodies ==
    {JDict(Some(JList(l)), d) : l \in HomeworkLists, d \in Dates}
        \cup {JDict(NoVal, Some(1800)), JDict(Some(JString), Some(1800)), JBareList}

\* what requests.get does: raises, or answers with a status and a body
NetRaises(text) ==
    [raises |-> Some(text), status_code |-> 0, http_error |-> NoVal,
     json |-> NoVal]
NetAnswer(code, httpError, json) ==
    [raises |-> NoVal, status_code |-> code, http_error |-> httpError,
     json |-> json]

Network ==
    { NetRaises("connection timed out"),
      \* 5xx: raise_for_status() raises HTTPError
      NetAnswer(503, Some("503 Server Error"), NoVal),
      \* not 200 and no error status: raise_for_status() returns None
      NetAnswer(204, NoVal, NoVal),
      NetAnswer(304, NoVal, NoVal),
      \* 200 with a body that is no JSON
      NetAnswer(HTTP_OK, NoVal, NoVal) }
        \cup {NetAnswer(HTTP_OK, NoVal, Some(b)) : b \in Bodies}

\* Identities of exception objects, kept up to renaming: the object that
\* last_error refers to is Kept, an exception just raised is another object
Kept == "kept"
Fresh == "fresh"

----------------------------------------------------------------------------
(* The functions of homework.py *)

\* bot.send_message inside send_message: delivered, or TelegramError
send_message(message, delivered) ==
    IF delivered THEN Ok(NoVal)
    ELSE Raise("TelegramError", "Failed to send the message")

\* the from_date get_api_answer puts in the request
FromDate(timestamp, now) ==
    IF timestamp # 0 THEN timestamp ELSE now

get_api_answer(timestamp, now, net) ==
    IF net.raises # NoVal
    THEN Raise("RequestException", "Endpoint unavailable: " \o net.raises[1])
    ELSE IF net.status_code # HTTP_OK
    THEN IF net.http_error # NoVal
         THEN Raise("RequestException",
                    "Endpoint unavailable: " \o net.http_error[1])
         ELSE \* raise None
              Raise("TypeError", "exceptions must derive from BaseException")
    ELSE IF net.json = NoVal
    THEN Raise("JSONDecodeError", "Expecting value: line 1 column 1 (char 0)")
    ELSE Ok(net.json[1])

\* check_response without the isinstance(homework, list) test of line 93
check_response_unchecked(response) ==
    IF response.tag = "dict"
    THEN IF response.homeworks = NoVal
         THEN Raise("KeyNotFound",
                    "Key " \o ReprKey("homeworks") \o " not found in the response")
         ELSE Ok(response.homeworks[1].items)
    ELSE Raise("TypeError", "No dict found in the API response")

check_response(response) ==
    IF response.tag = "dict"
    THEN IF response.homeworks = NoVal
         THEN Raise("KeyNotFound",
                    "Key " \o ReprKey("homeworks") \o " not found in the response")
         ELSE IF response.homeworks[1].tag # "list"
         THEN Raise("TypeError", "The response holds no list of homeworks")
         ELSE Ok(response.homeworks[1].items)
    ELSE Raise("TypeError", "No dict found in the API response")

MissingKey(key) ==
    Raise("KeyError",
          "Key " \o ReprKey(key) \o " not found in the homework information")

\* parse_status with HOMEWORK_STATUSES.get(status, ''): no UnknownStatus
parse_status_lenient(homework) ==
    IF homework.homework_name = NoVal THEN MissingKey("homework_name")
    ELSE IF homework.status = NoVal THEN MissingKey("status")
    ELSE Ok("The review status of the work \"" \o homework.homework_name[1]
               \o "\" has changed. "
               \o (IF homework.status[1] \in DOMAIN HOMEWORK_STATUSES
                   THEN HOMEWORK_STATUSES[homework.status[1]] ELSE ""))

\* parse_status with the status code put in the message for its verdict
parse_status_code(homework) ==
    IF homework.homework_name = NoVal THEN MissingKey("homework_name")
    ELSE IF homework.status = NoVal THEN MissingKey("status")
    ELSE IF homework.status[1] \notin DOMAIN HOMEWORK_STATUSES
    THEN Raise("UnknownStatus",
               "Unknown homework status: " \o ReprKey(homework.status[1]))
    ELSE Ok("The review status of the work \"" \o homework.homework_name[1]
               \o "\" has changed. " \o homework.status[1])

parse_status(homework) ==
    IF homework.homework_name = NoVal THEN MissingKey("homework_name")
    ELSE IF homework.status = NoVal THEN MissingKey("status")
    ELSE LET homework_name == homework.homework_name[1]
             homework_status == homework.status[1]
         IN  IF homework_status \notin DOMAIN HOMEWORK_STATUSES
             THEN Raise("UnknownStatus",
                        "Unknown homework status: " \o ReprKey(homework_status))
             ELSE Ok("The review status of the work \"" \o homework_name
                        \o "\" has changed. "
                        \o HOMEWORK_STATUSES[homework_status])

Truthy(value) == value # NoVal /\ value[1] # ""

\* any() written for all()
check_tokens_any(e) == \E name \in EnvNames : Truthy(e[name])

check_tokens(e) == \A name \in EnvNames : Truthy(e[name])

----------------------------------------------------------------------------
(* The steps of main's loop *)

\* line 159: current_timestamp - RETRY_TIME
LookBack(timestamp) ==
    IF timestamp = NoVal
    THEN Raise("TypeError",
               "unsupported operand type(s) for -: 'NoneType' and 'int'")
    ELSE Ok(timestamp[1] - RETRY_TIME)

\* line 161: homework != last_homework, the equality of Python lists
ShouldNotify(homework, last) == Some(homework) # last

\* line 163: homework[0]
Newest(homework) ==
    IF Len(homework) = 0 THEN Raise("IndexError", "list index out of range")
    ELSE Ok(homework[1])

\* the inner try without its except clause
ExceptNothing(exc) == FALSE

\* line 166: except IndexError
ExceptIndexError(exc) == exc # NoVal /\ exc[1].type = "IndexError"

\* last_homework assigned before the send
CommitBeforeSend(homework, last, delivered) == Some(homework)

\* line 165 runs only when line 164 has not raised
CommitLast(homework, last, delivered) ==
    IF delivered THEN Some(homework) ELSE last

\* the marker read under a key the response does not have
NextTimestampWrongKey(response) == NoVal

\* line 170: response.get('current_date')
NextTimestamp(response) == response.current_date

\* the errors compared by class and message
ErrorDiffersByMessage(err, last) ==
    last = NoVal \/ err.type # last[1].type \/ err.msg # last[1].msg

\* line 174: error != last_error; exceptions define no __eq__, so the objects
\* are compared by identity
ErrorDiffers(err, last) == last = NoVal \/ err.id # last[1].id

\* a bare except, which catches BaseException
ExceptBaseException(type) == TRUE

\* line 173: except Exception; KeyboardInterrupt derives from BaseException
ExceptException(type) == type # "KeyboardInterrupt"

\* line 175
FailureMessage(err) == "Program failure: " \o PyStr(err)

\* line 48: one call of bot.send_message(TELEGRAM_CHAT_ID, message)
Send(kind, text, delivered) ==
    [kind |-> kind, text |-> text, ok |-> delivered,
     chat_id |-> env["TELEGRAM_CHAT_ID"]]

\* lines 161-169: what the comparison and the inner try do
Notify(homework, last, delivered) ==
    LET none == [described |-> FALSE, sends |-> <<>>, last |-> last, exc |-> NoVal]
    IN
    IF ~ShouldNotify(homework, last) THEN none
    ELSE LET item == Newest(homework) IN
         IF item.raised
         THEN [none EXCEPT !.exc = IF ExceptIndexError(item.exc) THEN NoVal
                                   ELSE item.exc]
         ELSE LET message == parse_status(item.value[1]) IN
              IF message.raised
              THEN [none EXCEPT !.described = TRUE, !.exc = message.exc]
              ELSE LET sent == send_message(message.value[1], delivered) IN
                   [described |-> TRUE,
                    sends     |-> <<Send("status", message.value[1], delivered)>>,
                    last      |-> CommitLast(homework, last, ~sent.raised),
                    exc       |-> sent.exc]

\* lines 159-170: the body of the try up to the sleep
TryBody(timestamp, last, now, net, delivered) ==
    LET failed(exc) ==
            [fetched |-> FALSE, from_date |-> NoVal, net |-> NoVal,
             answer |-> NoVal, valid |-> FALSE,
             homework |-> NoVal, date |-> NoVal, described |-> FALSE,
             sends |-> <<>>, exc |-> exc, last |-> last, timestamp |-> timestamp]
        since == LookBack(timestamp)
    IN
    IF since.raised THEN failed(since.exc)
    ELSE
    LET from     == Some(FromDate(since.value[1], now))
        response == get_api_answer(since.value[1], now, net)
    IN
    IF response.raised
    THEN [failed(response.exc) EXCEPT !.fetched = TRUE, !.from_date = from,
                                      !.net = Some(net),
                                      !.answer = Some(response)]
    ELSE
    LET homework == check_response(response.value[1]) IN
    IF homework.raised
    THEN [failed(homework.exc) EXCEPT !.fetched = TRUE, !.from_date = from,
                                      !.net = Some(net),
                                      !.answer = Some(response)]
    ELSE
    LET n == Notify(homework.value[1], last, delivered) IN
    [fetched   |-> TRUE,
     from_date |-> from,
     net       |-> Some(net),
     answer    |-> Some(response),
     valid     |-> TRUE,
     homework  |-> homework.value,
     date      |-> response.value[1].current_date,
     described |-> n.described,
     sends     |-> n.sends,
     exc       |-> n.exc,
     last      |-> n.last,
     timestamp |-> IF n.exc = NoVal THEN NextTimestamp(response.value[1])
                   ELSE timestamp]

----------------------------------------------------------------------------
(* The state machine *)

\* The record of a cycle that has not fetched yet. net is what requests.get
\* did in the cycle and answer what get_api_answer made of it.
EmptyCur ==
    [fetched |-> FALSE, from_date |-> NoVal, net |-> NoVal, answer |-> NoVal,
     valid |-> FALSE, homework |-> NoVal,
     date |-> NoVal, described |-> FALSE, sends |-> <<>>, exc |-> NoVal,
     sleeps |-> 0]

NoPrev ==
    [exists |-> FALSE, fetched |-> FALSE, valid |-> FALSE, head |-> NoVal,
     retry |-> NoVal, sends |-> <<>>, exc |-> NoVal, sleeps |-> 0]

\* the newest item of a validated list, if any (homework[0])
NewestOf(homework) ==
    IF homework = NoVal \/ Len(homework[1]) = 0 THEN NoVal
    ELSE Some(homework[1][1])

\* What is kept of a finished cycle; retry is the validated list of a cycle
\* that went for a status notification and raised.
Summary(c) ==
    [exists |-> TRUE, fetched |-> c.fetched, valid |-> c.valid,
     head |-> NewestOf(c.homework),
     retry |-> IF c.described /\ c.exc # NoVal THEN c.homework ELSE NoVal,
     sends |-> c.sends, exc |-> c.exc, sleeps |-> c.sleeps]

Init ==
    /\ pc = "start"
    /\ env \in [EnvNames -> EnvValues]
    /\ current_timestamp = NoVal
    /\ last_homework = NoVal
    /\ last_error = NoVal
    /\ error = NoVal
    /\ uncaught = NoVal
    /\ cur = EmptyCur
    /\ prev = NoPrev

\* lines 140-155
Start ==
    /\ pc = "start"
    /\ \E token_valid \in BOOLEAN, now \in Clock :
         IF ~check_tokens(env)
         THEN /\ pc' = "fatal"
              /\ uncaught' = Raise("MissingVariable",
                                   "One of the environment variables is missing").exc
              /\ UNCHANGED current_timestamp
         ELSE IF ~token_valid
         THEN /\ pc' = "fatal"
              /\ uncaught' = Raise("InvalidToken", "Invalid token").exc
              /\ UNCHANGED current_timestamp
         ELSE /\ pc' = "poll"
              /\ current_timestamp' = Some(now)
              /\ UNCHANGED uncaught
    /\ UNCHANGED <<env, last_homework, last_error, error, cur, prev>>

\* The process has ended: its memory is gone. What the last cycle did stays
\* on record in prev.
Ended(state, exc, last_cycle) ==
    /\ pc' = state
    /\ uncaught' = exc
    /\ current_timestamp' = NoVal
    /\ last_homework' = NoVal
    /\ last_error' = NoVal
    /\ error' = NoVal
    /\ cur' = EmptyCur
    /\ prev' = last_cycle
    /\ UNCHANGED env

\* lines 158-170: one pass through the try, up to the sleep or to the raise
Poll ==
    /\ pc = "poll"
    /\ \E now \in Clock, net \in Network, delivered \in BOOLEAN :
       \E r \in {TryBody(current_timestamp, last_homework, now, net, delivered)} :
         /\ current_timestamp' = r.timestamp
         /\ last_homework' = r.last
         /\ cur' = [fetched |-> r.fetched, from_date |-> r.from_date,
                    net |-> r.net, answer |-> r.answer,
                    valid |-> r.valid, homework |-> r.homework,
                    date |-> r.date, described |-> r.described,
                    sends |-> r.sends, exc |-> r.exc, sleeps |-> 0]
         /\ IF r.exc = NoVal
            THEN pc' = "sleep" /\ error' = NoVal
            ELSE /\ pc' = "handler"
                 /\ error' = Some([type |-> r.exc[1].type,
                                   msg |-> r.exc[1].msg, id |-> Fresh])
    /\ UNCHANGED <<env, last_error, uncaught, prev>>

\* lines 173-179, the sleep of line 179 excepted
HandleError ==
    /\ pc = "handler"
    /\ IF ErrorDiffers(error[1], last_error)
       THEN \E delivered \in BOOLEAN :
              LET message == FailureMessage(error[1])
                  sent    == send_message(message, delivered)
                  done    == [cur EXCEPT !.sends =
                                 Append(@, Send("failure", message, delivered))]
              IN  IF sent.raised
                  THEN \* the TelegramError leaves the handler and main
                       Ended("crashed", sent.exc, Summary(done))
                  ELSE /\ pc' = "poll"
                       /\ last_error' = Some([error[1] EXCEPT !.id = Kept])
                       /\ error' = NoVal
                       /\ prev' = Summary(done)
                       /\ cur' = EmptyCur
                       /\ UNCHANGED <<env, current_timestamp, last_homework,
                                      uncaught>>
       ELSE /\ pc' = "handler_sleep"
            /\ UNCHANGED <<env, current_timestamp, last_homework, last_error,
                           error, uncaught, cur, prev>>

\* time.sleep(RETRY_TIME), line 171 or line 179
Sleep ==
    /\ pc \in {"sleep", "handler_sleep"}
    /\ pc' = "poll"
    /\ error' = NoVal
    /\ prev' = Summary([cur EXCEPT !.sleeps = @ + 1])
    /\ cur' = EmptyCur
    /\ UNCHANGED <<env, current_timestamp, last_homework, last_error, uncaught>>

\* KeyboardInterrupt. Lines 159-171 are inside the try: were the exception
\* caught at line 173 it would be handled as an error of the cycle. It is
\* not, and passes to line 185, where sys.exit() ends the process with code 0.
Interrupt ==
    /\ pc \in {"start", "poll", "handler", "sleep", "handler_sleep"}
    /\ IF pc \in {"poll", "sleep"} /\ ExceptException("KeyboardInterrupt")
       THEN /\ pc' = "handler"
            /\ error' = Some([type |-> "KeyboardInterrupt", msg |-> "",
                              id |-> Fresh])
            /\ cur' = [cur EXCEPT !.exc = Raise("KeyboardInterrupt", "").exc]
            /\ UNCHANGED <<env, current_timestamp, last_homework, last_error,
                           uncaught, prev>>
       ELSE Ended("exited", NoVal, prev)

\* the exit code of the process: sys.exit() gives 0, a traceback 1
ExitCode ==
    IF pc = "exited" THEN Some(0)
    ELSE IF pc \in {"fatal", "crashed"} THEN Some(1)
    ELSE NoVal

Next == Start \/ Poll \/ HandleError \/ Sleep \/ Interrupt

Spec == Init /\ [][Next]_vars

----------------------------------------------------------------------------
(* Vocabulary of the claims *)

\* the spec's state.lastNotifiedItem: the newest item of last_homework
lastNotifiedItem == NewestOf(last_homework)

\* the spec's state.resumeMarker
resumeMarker == current_timestamp

\* number of send attempts of a kind, and of delivered sends
Attempts(sends, kind) ==
    Cardinality({i \in 1..Len(sends) : sends[i].kind = kind})
Delivered(sends, kind) ==
    Cardinality({i \in 1..Len(sends) : sends[i].kind = kind /\ sends[i].ok})

\* the cycle in progress has left the try: its status sends are done
PastTry == pc \in {"sleep", "handler"}

\* the process is running main's loop
Looping == {"poll", "handler", "sleep", "handler_sleep"}

IsFetchError(exc) == exc # NoVal /\ exc[1].type = "RequestException"

\* an item with a name and a status of HOMEWORK_STATUSES
Describable(item) ==
    /\ item # NoVal
    /\ item[1].homework_name # NoVal
    /\ item[1].status \in {Some("approved"), Some("reviewing"), Some("rejected")}

\* an item with a name and a status outside HOMEWORK_STATUSES
UnknownStatusItem(item) ==
    /\ item # NoVal
    /\ item[1].homework_name # NoVal
    /\ item[1].status # NoVal
    /\ ~Describable(item)

----------------------------------------------------------------------------
(* C1 *)

\* C1: of two consecutive cycles whose fetch and validation succeed and whose
\* responses have the same newest item, at most one delivers a status
\* notification, whatever the older items of the two lists are.
C1_AtMostOneNotification ==
    (/\ PastTry
     /\ prev.exists /\ prev.valid /\ cur.valid
     /\ prev.head # NoVal /\ NewestOf(cur.homework) = prev.head)
        => Delivered(prev.sends, "status") + Delivered(cur.sends, "status") <= 1

----------------------------------------------------------------------------
(* C2 *)

\* C2: when two consecutive cycles fail with a fetch error of the same
\* message, the first has attempted the one failure notification and has
\* recorded the error as last_error, and the second sends nothing and only
\* waits.
C2_OneFailureNotification ==
    [][(/\ pc = "handler" /\ pc' # "exited"
        /\ prev.exists
        /\ IsFetchError(cur.exc) /\ prev.exc = cur.exc)
          => /\ Attempts(prev.sends, "failure") = 1
             /\ last_error # NoVal
             /\ last_error[1].msg = cur.exc[1].msg
             /\ pc' = "handler_sleep"
             /\ cur'.sends = cur.sends]_vars

----------------------------------------------------------------------------
(* C3 *)

\* C3: once the loop has started no outcome of a fetch, a validation, an
\* extraction or a delivery ends it: main is left by the interrupt only.
C3_LoopNeverTerminates == pc # "crashed"

----------------------------------------------------------------------------
(* C4 *)

\* C4: in a cycle whose fetch and validation succeed, a status notification
\* send is attempted if and only if the list is not empty and its newest
\* item differs from lastNotifiedItem. Stated for the cycles whose newest
\* item parse_status accepts (and for the empty list), where nothing but the
\* comparison decides the send.
C4_SendIffNewestDiffers ==
    [][(/\ pc = "poll" /\ PastTry'
        /\ cur'.valid
        /\ \/ cur'.homework = Some(<<>>)
           \/ Describable(NewestOf(cur'.homework)))
          => (Attempts(cur'.sends, "status") = 1
                <=> /\ NewestOf(cur'.homework) # NoVal
                    /\ NewestOf(cur'.homework) # lastNotifiedItem)]_vars

----------------------------------------------------------------------------
(* C5 *)

\* C5: lastNotifiedItem changes only in a cycle that delivered the status
\* notification of its newest item, and becomes that item; a cycle that
\* raises and the error handler leave it as it was; and the cycle after one
\* whose extraction or delivery raised, given the same list, goes for the
\* same status notification again.
C5_CommitOnlyOnDelivery ==
    /\ [][pc' \in Looping =>
            /\ lastNotifiedItem' # lastNotifiedItem =>
                  /\ pc = "poll"
                  /\ Delivered(cur'.sends, "status") = 1
                  /\ lastNotifiedItem' = NewestOf(cur'.homework)
            /\ (pc = "poll" /\ cur'.exc # NoVal) => last_homework' = last_homework
            /\ pc = "handler" => last_homework' = last_homework]_vars
    /\ []((PastTry /\ prev.retry # NoVal
                /\ cur.valid /\ cur.homework = prev.retry)
            => /\ cur.described
               /\ Attempts(prev.sends, "status") = 0 => cur.exc = prev.exc
               /\ Attempts(prev.sends, "status") = 1 =>
                     /\ Attempts(cur.sends, "status") = 1
                     /\ cur.sends[1].text = prev.sends[1].text)

\* a delivery that failed is tried again on the same list, succeeds and is
\* committed
C5_Witness ==
    /\ PastTry
    /\ prev.retry # NoVal /\ cur.homework = prev.retry
    /\ Attempts(prev.sends, "status") = 1
    /\ Delivered(prev.sends, "status") = 0
    /\ Delivered(cur.sends, "status") = 1
    /\ lastNotifiedItem = NewestOf(cur.homework)

----------------------------------------------------------------------------
(* C6 *)

\* C6: between two consecutive fetches there is exactly one sleep.
C6_OneSleepBetweenFetches ==
    (PastTry /\ cur.fetched /\ prev.exists /\ prev.fetched) => prev.sleeps = 1

----------------------------------------------------------------------------
(* C7 *)

\* C7 as claimed: a cycle whose fetch or validation failed leaves
\* resumeMarker as it was, and a cycle that obtained a valid response sets it
\* to the current_date of that response, whatever its later steps did.
\* Stated for the responses that carry a current_date.
C7_MarkerFollowsResponse ==
    [][(pc = "poll" /\ PastTry') =>
          /\ ~cur'.valid => resumeMarker' = resumeMarker
          /\ (cur'.valid /\ cur'.date # NoVal) => resumeMarker' = cur'.date]_vars

\* C7, amended: a cycle in which anything raised (fetch, validation, status
\* extraction, delivery) leaves resumeMarker as it was; a cycle that went
\* through without an error had a valid response and sets resumeMarker to
\* that response's current_date; the error handler and the sleep do not
\* touch it.
C7_MarkerFollowsCompletedCycle ==
    [][pc' \in Looping =>
          /\ (pc = "poll" /\ cur'.exc # NoVal) => resumeMarker' = resumeMarker
          /\ (pc = "poll" /\ cur'.exc = NoVal) =>
                cur'.valid /\ resumeMarker' = cur'.date
          /\ pc \in {"handler", "sleep", "handler_sleep"} =>
                resumeMarker' = resumeMarker]_vars

\* a valid response with a current_date, the delivery failed, the marker is
\* not that date
C7_Witness ==
    /\ pc = "handler"
    /\ cur.valid /\ cur.date # NoVal
    /\ Attempts(cur.sends, "status") = 1 /\ Delivered(cur.sends, "status") = 0
    /\ resumeMarker # cur.date

----------------------------------------------------------------------------
(* C8 *)

\* the messages of the three statuses, written out
ExpectedText(item) ==
    IF item = Homework(Some("hw1"), Some("approved"))
    THEN "The review status of the work \"hw1\" has changed. Work checked: the reviewer liked everything. Hooray!"
    ELSE IF item = Homework(Some("hw1"), Some("reviewing"))
    THEN "The review status of the work \"hw1\" has changed. Work taken for review by the reviewer."
    ELSE IF item = Homework(Some("hw2"), Some("rejected"))
    THEN "The review status of the work \"hw2\" has changed. Work checked: the reviewer has remarks."
    ELSE "?"

\* the first cycle of the loop has left the try with a valid response whose
\* newest item has a name and a known status
FirstCycleDescribable ==
    /\ PastTry
    /\ ~prev.exists
    /\ cur.valid
    /\ Describable(NewestOf(cur.homework))

\* one Notifier call with the text of the newest item, the item committed,
\* the marker advanced, no error to report
OneCallAndCommit ==
    /\ pc = "sleep"
    /\ Len(cur.sends) = 1
    /\ cur.sends[1].kind = "status"
    /\ cur.sends[1].text = ExpectedText(NewestOf(cur.homework)[1])
    /\ lastNotifiedItem = NewestOf(cur.homework)
    /\ resumeMarker = cur.date

\* C8 as claimed: from the initial state, a cycle with a valid response whose
\* newest item has a name and a known status makes exactly one Notifier
\* call, with the text of that item, commits the item and advances the
\* marker to the response's current_date.
C8_FirstCycleNotifies == FirstCycleDescribable => OneCallAndCommit

\* C8, amended: the same, for the cycles in which Telegram delivers the
\* message.
C8_FirstCycleNotifiesWhenDelivered ==
    (FirstCycleDescribable /\ \A i \in 1..Len(cur.sends) : cur.sends[i].ok)
        => OneCallAndCommit

\* the spec's example: hw1 approved, current_date 1800
C8_Witness ==
    /\ FirstCycleDescribable
    /\ cur.homework = Some(<<Homework(Some("hw1"), Some("approved"))>>)
    /\ cur.date = Some(1800)
    /\ cur.sends = <<Send("status", "The review status of the work \"hw1\" has changed. Work checked: the reviewer liked everything. Hooray!", TRUE)>>
    /\ resumeMarker = Some(1800)
    /\ lastNotifiedItem = Some(Homework(Some("hw1"), Some("approved")))

----------------------------------------------------------------------------
(* C9 *)

\* C9: a cycle whose validated list is empty sends nothing, raises nothing
\* and leaves last_homework and last_error as they were, in the try and in
\* the sleep that ends the cycle.
C9_EmptyListIsSilent ==
    /\ [][(pc = "poll" /\ PastTry' /\ cur'.valid /\ cur'.homework = Some(<<>>)) =>
            /\ pc' = "sleep"
            /\ cur'.exc = NoVal
            /\ cur'.sends = <<>>
            /\ last_homework' = last_homework
            /\ last_error' = last_error]_vars
    /\ [][(pc = "sleep" /\ cur.homework = Some(<<>>) /\ pc' \in Looping) =>
            /\ prev'.sends = <<>>
            /\ prev'.exc = NoVal
            /\ last_homework' = last_homework
            /\ last_error' = last_error]_vars

\* an empty list received when an item has been notified and an error reported
C9_Witness ==
    /\ pc = "sleep"
    /\ cur.valid /\ cur.homework = Some(<<>>)
    /\ lastNotifiedItem # NoVal
    /\ last_error # NoVal

----------------------------------------------------------------------------
(* C10 *)

\* C10: a cycle whose newest item has a status outside HOMEWORK_STATUSES
\* raises UnknownStatus, sends no status notification and does not end the
\* loop.
C10_UnknownStatusAbsorbed ==
    /\ (PastTry /\ cur.valid /\ UnknownStatusItem(NewestOf(cur.homework))) =>
          /\ cur.exc # NoVal
          /\ cur.exc[1].type = "UnknownStatus"
          /\ cur.sends = <<>>
    /\ (prev.exists /\ UnknownStatusItem(prev.head)) =>
          /\ Attempts(prev.sends, "status") = 0
          /\ pc # "crashed"

----------------------------------------------------------------------------
(* C11 *)

\* C11: get_api_answer returns the body when requests.get answers 200 with
\* a well-formed body, and raises the fetch error (RequestException with a
\* message) and nothing else when requests.get raises or answers with a
\* status outside 2xx. (The body that is no JSON is left out of the
\* statement: the class of the exception response.json() raises depends on
\* the version of requests.)
C11_BodyOrFetchError ==
    (PastTry /\ cur.fetched) =>
        LET n == cur.net[1]
            a == cur.answer[1]
        IN  /\ (n.raises = NoVal /\ n.status_code = HTTP_OK /\ n.json # NoVal)
                  => ~a.raised /\ a.value = n.json
            /\ (n.raises # NoVal \/ n.status_code \notin 200..299)
                  => /\ a.raised
                     /\ a.exc[1].type = "RequestException"
                     /\ a.exc[1].msg # ""

----------------------------------------------------------------------------
(* C12 *)

\* the three credentials are set and not empty, read off the environment
CredentialsSet ==
    /\ env["PRACTICUM_TOKEN"] \notin {NoVal, Some("")}
    /\ env["TELEGRAM_TOKEN"] \notin {NoVal, Some("")}
    /\ env["TELEGRAM_CHAT_ID"] \notin {NoVal, Some("")}

\* C12: with a credential unset or empty the process never enters the loop:
\* it is at its start, has ended with MissingVariable uncaught, or was
\* interrupted, and no fetch and no send is on record. With the three
\* credentials set MissingVariable is never raised.
C12_MissingCredentialIsFatal ==
    /\ ~CredentialsSet =>
          /\ pc \in {"start", "fatal", "exited"}
          /\ pc = "fatal" => uncaught[1].type = "MissingVariable"
          /\ cur = EmptyCur
          /\ prev = NoPrev
    /\ CredentialsSet =>
          /\ uncaught = NoVal \/ uncaught[1].type # "MissingVariable"
          /\ ENABLED Start => \E now \in Clock : ENABLED (Start /\ pc' = "poll")

\* the chat id alone is empty and the run has ended with MissingVariable
C12_Witness ==
    /\ env["PRACTICUM_TOKEN"] = Some("secret")
    /\ env["TELEGRAM_TOKEN"] = Some("secret")
    /\ env["TELEGRAM_CHAT_ID"] = Some("")
    /\ pc = "fatal"
    /\ uncaught # NoVal
    /\ uncaught[1].type = "MissingVariable"

----------------------------------------------------------------------------
(* C13 *)

\* C13: no KeyboardInterrupt is ever the error of a cycle or the reported
\* error, at every position of the loop an interrupt can be taken, and a
\* step that leaves the loop without a crash ends the process with exit code
\* 0, with no send and no cycle added to the record.
C13_InterruptExits ==
    /\ [](/\ (error # NoVal => error[1].type # "KeyboardInterrupt")
          /\ (last_error # NoVal => last_error[1].type # "KeyboardInterrupt")
          /\ (cur.exc # NoVal => cur.exc[1].type # "KeyboardInterrupt")
          /\ (prev.exc # NoVal => prev.exc[1].type # "KeyboardInterrupt"))
    /\ [][(pc \in Looping /\ pc' \notin Looping /\ pc' # "crashed") =>
             /\ pc' = "exited"
             /\ ExitCode' = Some(0)
             /\ uncaught' = NoVal
             /\ prev' = prev
             /\ cur' = EmptyCur]_vars

\* the process was interrupted after a cycle that sent a failure
\* notification, and has exited
C13_Witness ==
    /\ pc = "exited"
    /\ ExitCode = Some(0)
    /\ prev.exists
    /\ Attempts(prev.sends, "failure") = 1

----------------------------------------------------------------------------
(* C14 *)

\* the cycle in progress has left the try and get_api_answer returned a body
Validated == PastTry /\ cur.answer # NoVal /\ ~cur.answer[1].raised

\* the cycle raised an exception of the class, sent nothing and is in the
\* except clause of line 173
RejectedAs(type) ==
    /\ ~cur.valid
    /\ cur.exc # NoVal
    /\ cur.exc[1].type = type
    /\ cur.sends = <<>>
    /\ pc = "handler"
    /\ error # NoVal
    /\ error[1].type = type

\* C14: a body that is no dict raises TypeError, a dict without 'homeworks'
\* KeyNotFound, a dict whose 'homeworks' is no list TypeError, and any other
\* body gives its 'homeworks' list as it is; a cycle whose body is rejected
\* sends no status notification and goes to the except clause of the loop.
C14_ValidateClassifies ==
    Validated =>
        LET body == cur.answer[1].value[1] IN
        IF body.tag # "dict" THEN RejectedAs("TypeError")
        ELSE IF body.homeworks = NoVal THEN RejectedAs("KeyNotFound")
        ELSE IF body.homeworks[1].tag # "list" THEN RejectedAs("TypeError")
        ELSE cur.valid /\ cur.homework = Some(body.homeworks[1].items)

\* a body whose 'homeworks' is a string was rejected
C14_Witness ==
    /\ Validated
    /\ cur.answer[1].value[1] = JDict(Some(JString), Some(1800))
    /\ RejectedAs("TypeError")

----------------------------------------------------------------------------
(* C15 *)

\* C15: a pass through the try starts from an integer current_timestamp,
\* fetches with from_date = current_timestamp - 600 and leaves
\* current_timestamp an integer.
C15_MarkerIsInteger ==
    [][(pc = "poll" /\ pc' \in {"sleep", "handler"}) =>
          /\ resumeMarker' # NoVal
          /\ resumeMarker # NoVal
          /\ cur'.fetched
          /\ cur'.from_date = Some(resumeMarker[1] - RETRY_TIME)]_vars

----------------------------------------------------------------------------
(* C16 *)

\* the error of the cycle differs from the reported one by class or message
DiffersFromReported ==
    \/ last_error = NoVal
    \/ error[1].type # last_error[1].type
    \/ error[1].msg # last_error[1].msg

\* C16: the step of the except clause on an error that differs from
\* last_error makes one failure send attempt in the cycle, with the text
\* built from the error, and leaves last_error the error; a pass through the
\* try that raises nothing leaves last_error as it was.
C16_NewErrorIsReported ==
    [][/\ (pc = "handler" /\ pc' # "exited" /\ DiffersFromReported) =>
             /\ Attempts(prev'.sends, "failure") = 1
             /\ prev'.sends[Len(prev'.sends)].kind = "failure"
             /\ prev'.sends[Len(prev'.sends)].text
                    = "Program failure: " \o PyStr(error[1])
             /\ last_error' # NoVal
             /\ last_error'[1].type = error[1].type
             /\ last_error'[1].msg = error[1].msg
       /\ (pc = "poll" /\ pc' = "sleep") => last_error' = last_error]_vars

----------------------------------------------------------------------------
(* C17 *)

\* the exception of the cycle in progress is of the class, with the message
RaisedWith(type, msg) ==
    /\ cur.exc # NoVal
    /\ cur.exc[1].type = type
    /\ cur.exc[1].msg = msg
    /\ cur.sends = <<>>

\* C17: parse_status, applied to the newest item, gives the sentence with
\* the item's name and the verdict of its status when the item has a name
\* and one of the three known statuses; it raises KeyError naming
\* 'homework_name' or 'status' when that field is missing, and UnknownStatus
\* when the status is none of the three.
C17_DescribeIffKnownStatus ==
    (PastTry /\ cur.described) =>
        LET item == NewestOf(cur.homework)[1] IN
        IF item.homework_name = NoVal
        THEN RaisedWith("KeyError",
                 "Key 'homework_name' not found in the homework information")
        ELSE IF item.status = NoVal
        THEN RaisedWith("KeyError",
                 "Key 'status' not found in the homework information")
        ELSE IF item.status[1] \notin {"approved", "reviewing", "rejected"}
        THEN /\ cur.exc # NoVal
             /\ cur.exc[1].type = "UnknownStatus"
             /\ cur.sends = <<>>
        ELSE /\ Len(cur.sends) = 1
             /\ cur.sends[1].kind = "status"
             /\ cur.sends[1].text = ExpectedText(item)
             /\ cur.sends[1].text # "?"
             /\ cur.exc # NoVal => cur.exc[1].type = "TelegramError"

\* a rejected work was described and the sentence sent
C17_Witness ==
    /\ PastTry
    /\ cur.described
    /\ NewestOf(cur.homework) = Some(Homework(Some("hw2"), Some("rejected")))
    /\ Len(cur.sends) = 1
    /\ cur.sends[1].text = "The review status of the work \"hw2\" has changed. Work checked: the reviewer has remarks."
    /\ cur.sends[1].ok

----------------------------------------------------------------------------
(* C18: the loop fed with valid responses, all sends delivered *)

\* decoded bodies that check_response accepts and whose newest item
\* parse_status can describe
StableResponses ==
    {JDict(Some(JList(l)), d) :
        l \in {h \in HomeworkLists : Describable(NewestOf(Some(h)))},
        d \in Dates}

\* bot.send_message returned at every call of the step
SendsSucceed ==
    /\ \A i \in 1..Len(cur'.sends) : cur'.sends[i].ok
    /\ \A i \in 1..Len(prev'.sends) : prev'.sends[i].ok

\* a pass through the try in which requests.get, when called, answers 200
\* with one of StableResponses, and the send succeeds
PollFed ==
    /\ Poll
    /\ cur'.fetched =>
          \E R \in StableResponses :
              cur'.net = Some(NetAnswer(HTTP_OK, NoVal, Some(R)))
    /\ SendsSucceed

\* the except clause, the failure notification delivered
HandleErrorFed == HandleError /\ SendsSucceed

NextFed == Start \/ PollFed \/ HandleErrorFed \/ Sleep \/ Interrupt

\* The process is one thread that goes on while it is not interrupted: every
\* call returns or raises and every sleep ends.
SpecFed ==
    /\ Init
    /\ [][NextFed]_vars
    /\ WF_vars(Start \/ PollFed \/ HandleErrorFed \/ Sleep)

\* every fetch of the step answers 200 with the body R
FedWith(R) ==
    (pc = "poll" /\ cur'.fetched) =>
        cur'.net = Some(NetAnswer(HTTP_OK, NoVal, Some(R)))

\* while the loop runs, last_homework's newest item is that of R and neither
\* the cycle in progress nor the last finished one has attempted a send
Stabilised(R) ==
    pc \in Looping =>
        /\ lastNotifiedItem = NewestOf(Some(R.homeworks[1].items))
        /\ cur.sends = <<>>
        /\ prev.sends = <<>>

\* C18: if from some point on every fetch returns the same valid response R,
\* non-empty and with a newest item of known status, and every send is
\* delivered, then from some point on the newest item of last_homework is
\* that of R and no cycle attempts a send.
C18_Stabilises ==
    \A R \in StableResponses :
        (<>[][FedWith(R)]_vars) => <>[]Stabilised(R)

----------------------------------------------------------------------------
(* C19 *)

\* at most two sends, at most one of each kind, the failure notification
\* last, all to one chat
SendsInOrder(sends) ==
    /\ Len(sends) <= 2
    /\ Attempts(sends, "status") <= 1
    /\ Attempts(sends, "failure") <= 1
    /\ \A i \in 1..Len(sends) : sends[i].kind = "failure" => i = Len(sends)
    /\ \A i, j \in 1..Len(sends) : sends[i].chat_id = sends[j].chat_id

\* a status notification of the cycle was attempted and not delivered
StatusSendFailed(sends) ==
    \E i \in 1..Len(sends) : sends[i].kind = "status" /\ ~sends[i].ok

\* C19: a cycle, in progress or finished, makes at most two send attempts,
\* at most one status notification and then at most one failure
\* notification, all to the same chat; a failure notification is attempted
\* only in a cycle that raised; a finished cycle whose status notification
\* was not delivered has attempted a failure notification.
C19_AtMostTwoSends ==
    /\ SendsInOrder(cur.sends)
    /\ SendsInOrder(prev.sends)
    /\ Attempts(cur.sends, "failure") = 1 => cur.exc # NoVal
    /\ Attempts(prev.sends, "failure") = 1 => prev.exc # NoVal
    /\ StatusSendFailed(cur.sends) => pc = "handler" /\ cur.exc # NoVal
    /\ (prev.exists /\ StatusSendFailed(prev.sends)) =>
           /\ Len(prev.sends) = 2
           /\ prev.sends[2].kind = "failure"

\* a finished cycle with a failed status notification followed by a
\* delivered failure notification, and the loop goes on
C19_Witness ==
    /\ pc = "poll"
    /\ Len(prev.sends) = 2
    /\ prev.sends[1].kind = "status"
    /\ ~prev.sends[1].ok
    /\ prev.sends[2].kind = "failure"
    /\ prev.sends[2].ok

====
